---- MODULE Spec2Model ----
(***************************************************************************)
(* Model of the POST /get-unique-emails endpoint in its two variants:      *)
(*   "single"  server2.js            one store, no campaign header         *)
(*   "multi"   campaign.js           one store per campaign, lazy caches   *)
(* A request handler runs to completion between its awaits (Node's single  *)
(* thread), so each action below is one synchronous stretch of the handler:*)
(* from the arrival of the request to the first await, and from the        *)
(* resumption after an await to the next one.                              *)
(***************************************************************************)
EXTENDS Integers, Sequences, FiniteSets, TLC

\* ----------------------------------------------------------------- bounds
NumReqs == 2
MaxContacts == 2

Reqs == 1..NumReqs

\* ------------------------------------------------------------ input sets
Variants == {"single", "multi"}

\* variation: two campaigns are given the same database name
CAMPAIGNS_Shared ==
  [campaign1 |-> "campaign1_db", campaign2 |-> "campaign1_db",
   campaign3 |-> "campaign3_db", campaign4 |-> "campaign4_db",
   campaign5 |-> "campaign5_db"]

\* the CAMPAIGNS object literal
CAMPAIGNS ==
  [campaign1 |-> "campaign1_db", campaign2 |-> "campaign2_db",
   campaign3 |-> "campaign3_db", campaign4 |-> "campaign4_db",
   campaign5 |-> "campaign5_db"]

RegisteredKeys == DOMAIN CAMPAIGNS

\* Names every plain object ({}-literal) inherits from Object.prototype; a
\* property read obj[k] with such a k yields the inherited (truthy) member.
ProtoKeys == {"constructor"}

\* Values of the `campaign` header: "" stands for an absent (or empty) header.
CampaignHeaders == {"", "campaign1", "campaign2", "campaign9", "constructor"}
UserIds == {"", "u1", "u2"}
ConversationIds == {"", "v1"}
Emails == {"a@x.com", "A@x.com", "b@x.com"}

\* every string that can be used as a property name of the two caches
Keys == RegisteredKeys \cup (CampaignHeaders \ {""})

\* the store of the single-database variant (mongoose.connect(MONGO_URI))
SingleStore == "main"
StoreIds == {CAMPAIGNS[k] : k \in RegisteredKeys} \cup {SingleStore}

RECURSIVE SeqsUpTo(_)
SeqsUpTo(n) ==
  IF n = 0 THEN {<<>>}
  ELSE LET S == SeqsUpTo(n - 1)
       IN  S \cup {Append(s, e) : s \in {t \in S : Len(t) = n - 1}, e \in Emails}

\* req.body.contacts: something that is not an array, or an array of contact
\* objects (a contact object is represented by its email field).
Bodies ==
  {[isArray |-> FALSE, contacts |-> <<>>]}
    \cup {[isArray |-> TRUE, contacts |-> s] : s \in SeqsUpTo(MaxContacts)}

\* String.prototype.toLowerCase on the addresses of Emails
toLowerCase(e) == IF e = "A@x.com" THEN "a@x.com" ELSE e

\* ------------------------------------------------------------- variables
VARIABLES
  variant,       \* which of the two servers is running
  req,           \* per request: inputs, position in the handler, response
  store,         \* per store: the documents of its "contacts" collection
  connections,   \* own properties of `connections` (0: not set)
  modelCache,    \* own properties of `modelCache`  (NoModel: not set)
  connCreated,   \* per key: number of mongoose.createConnection calls
  modelCreated,  \* per key: number of connection.model calls
  mail           \* sgMail.send calls made so far

vars == <<variant, req, store, connections, modelCache, connCreated, modelCreated, mail>>

\* handles: 0 is `undefined`, ProtoMember is a member inherited from
\* Object.prototype (truthy, but neither a connection nor a model)
ProtoMember == -1
NoModel == [id |-> 0, conn |-> 0]
ProtoModel == [id |-> ProtoMember, conn |-> 0]

IdleReq ==
  [pc |-> "idle", campaign |-> "", user_id |-> "", conversation_id |-> "",
   isArray |-> FALSE, contacts |-> <<>>, storeId |-> SingleStore,
   model |-> NoModel, newContacts |-> <<>>, inserted |-> <<>>,
   pending |-> {}, failed |-> {}, status |-> 0, message |-> "",
   insertedField |-> -1, errCode |-> 0, pre |-> {}, alone |-> FALSE,
   responses |-> 0]

Init ==
  /\ variant \in Variants
  /\ req = [r \in Reqs |-> IdleReq]
  /\ store = [s \in StoreIds |-> {}]
  /\ connections = [k \in Keys |-> 0]
  /\ modelCache = [k \in Keys |-> NoModel]
  /\ connCreated = [k \in Keys |-> 0]
  /\ modelCreated = [k \in Keys |-> 0]
  /\ mail = {}

\* ------------------------------------------------- property reads (JS)
\* variation: the campaign key is not checked against the registry
HasCampaign_Unchecked(k) == TRUE

\* truthiness of CAMPAIGNS[k]
HasCampaign(k) == k \in RegisteredKeys \/ k \in ProtoKeys

\* connections[k]: the own property, else the inherited member, else undefined
ConnGet(conns, k) ==
  IF conns[k] # 0 THEN conns[k]
  ELSE IF k \in ProtoKeys THEN ProtoMember ELSE 0

\* variation: the cache is never hit
ModelGet_NoCache(cache, k) == NoModel

\* modelCache[k]
ModelGet(cache, k) ==
  IF cache[k] # NoModel THEN cache[k]
  ELSE IF k \in ProtoKeys THEN ProtoModel ELSE NoModel

\* ------------------------------------------ connection manager, accessor
\* getCampaignConnection(campaignKey): the result and the caches after it
getCampaignConnection(conns, created, k) ==
  IF ~HasCampaign(k)
  THEN [threw |-> TRUE, handle |-> 0, connections |-> conns, connCreated |-> created]
  ELSE IF ConnGet(conns, k) = 0
  THEN LET n == created[k] + 1
       IN  [threw |-> FALSE, handle |-> n,
            connections |-> [conns EXCEPT ![k] = n],
            connCreated |-> [created EXCEPT ![k] = n]]
  ELSE [threw |-> FALSE, handle |-> ConnGet(conns, k),
        connections |-> conns, connCreated |-> created]

\* getContactModel(campaignKey): the result and the caches after it
getContactModel(conns, cCreated, cache, mCreated, k) ==
  IF ModelGet(cache, k) # NoModel
  THEN [threw |-> FALSE, model |-> ModelGet(cache, k),
        connections |-> conns, connCreated |-> cCreated,
        modelCache |-> cache, modelCreated |-> mCreated]
  ELSE LET c == getCampaignConnection(conns, cCreated, k)
       IN  IF c.threw \/ c.handle = ProtoMember
           \* `Invalid campaign` thrown, or connection.model is not a function
           THEN [threw |-> TRUE, model |-> NoModel,
                 connections |-> c.connections, connCreated |-> c.connCreated,
                 modelCache |-> cache, modelCreated |-> mCreated]
           ELSE LET n == mCreated[k] + 1
                    m == [id |-> n, conn |-> c.handle]
                IN  [threw |-> FALSE, model |-> m,
                     connections |-> c.connections, connCreated |-> c.connCreated,
                     modelCache |-> [cache EXCEPT ![k] = m],
                     modelCreated |-> [mCreated EXCEPT ![k] = n]]

\* ------------------------------------------------------------- responses
\* variation: res.status(status).json(...) without the return
Respond_NoReturn(q, status, message, insertedField) ==
  [q EXCEPT !.status = status, !.message = message,
            !.insertedField = insertedField, !.responses = @ + 1]

\* res.status(status).json(...) followed by return (`responses` counts the
\* responses sent for the request)
Respond(q, status, message, insertedField) ==
  [q EXCEPT !.pc = "done", !.status = status, !.message = message,
            !.insertedField = insertedField, !.responses = @ + 1]

\* err.code of a duplicate-key error of the store, and of any other exception
DuplicateKey == 11000
OtherError == 1

\* variation: the catch block does not look at err.code
CatchStatus_Generic(code) == 500

\* status and body chosen by the catch block for an error with this code
CatchStatus(code) == IF code = DuplicateKey THEN 201 ELSE 500
CatchMessage(code) == IF code = DuplicateKey THEN "[]" ELSE "Internal server error"

\* the catch block of the handler
Catch(q, code) ==
  [Respond(q, CatchStatus(code), CatchMessage(code), -1) EXCEPT !.errCode = code]

\* ------------------------------------------------------------ the store
EmailsIn(docs) == {d.email : d \in docs}

\* Contact.find({ email: { $in: incomingEmails } }) mapped to doc.email
ExistingEmails(docs, contacts) ==
  {d.email : d \in {x \in docs : \E i \in 1..Len(contacts) : contacts[i] = x.email}}

\* variation: the existing emails are not filtered out
NewContacts_Unfiltered(contacts, existing) == contacts

\* contacts.filter(c => !existingEmails.has(c.email))
NewContacts(contacts, existing) ==
  SelectSeq(contacts, LAMBDA e : e \notin existing)

\* variation: the schema declares no unique index
IsDuplicate_NoIndex(present, docs, i) == FALSE

\* variation: uniqueness is only enforced within one batch
IsDuplicate_BatchOnly(present, docs, i) == \E j \in 1..(i - 1) : docs[j] = docs[i]

\* `email: { unique: true }`: document i of the batch collides with a stored
\* email or with an earlier document of the same batch
IsDuplicate(present, docs, i) ==
  docs[i] \in present \/ \E j \in 1..(i - 1) : docs[j] = docs[i]

\* variation: an ordered insert stops at the first collision
Insertable_Ordered(present, docs) ==
  {i \in 1..Len(docs) : \A j \in 1..i : ~IsDuplicate(present, docs, j)}

\* indices of the batch an unordered insertMany can persist
Insertable(present, docs) ==
  {i \in 1..Len(docs) : ~IsDuplicate(present, docs, i)}

\* variation: the contacts are inserted without the header values
Docs_NoIdentity(q, r, S) ==
  {[email |-> q.newContacts[i], user_id |-> "", conversation_id |-> "",
    req |-> r, idx |-> i] : i \in S}

\* the documents written for the indices S of the batch of request r
Docs(q, r, S) ==
  {[email |-> q.newContacts[i], user_id |-> q.user_id,
    conversation_id |-> q.conversation_id, req |-> r, idx |-> i] : i \in S}

\* the sgMail.send calls made for the inserted documents of request r
Sends(q, r, inserted) ==
  {[to |-> toLowerCase(inserted[i]), req |-> r, idx |-> i, storeId |-> q.storeId]
     : i \in 1..Len(inserted)}

\* ------------------------------------------------------------ validation
MissingCampaign == "Missing campaign header"
MissingIdentity == "Missing user_id or conversation_id in headers"
InvalidCampaign == "Invalid campaign! Please enter the correct campaign."
MissingContacts == "Request must include an array of contacts"
AlreadyExist(v) ==
  IF v = "multi" THEN "These emails already exist in this campaign."
  ELSE "These emails already exist."
\* `Successfully processed for campaign: ${campaign}` without the campaign
Processed == "Successfully processed for campaign: "

\* the if-chain at the head of the multi-campaign handler: the error of the
\* first check that fails, "" when all pass
ValidateMulti(q) ==
  IF q.campaign = "" THEN MissingCampaign
  ELSE IF q.user_id = "" \/ q.conversation_id = "" THEN MissingIdentity
  ELSE IF ~HasCampaign(q.campaign) THEN InvalidCampaign
  ELSE IF ~q.isArray \/ Len(q.contacts) = 0 THEN MissingContacts
  ELSE ""

\* the if-chain at the head of the single-store handler
ValidateSingle(q) ==
  IF q.user_id = "" \/ q.conversation_id = "" THEN MissingIdentity
  ELSE IF ~q.isArray \/ Len(q.contacts) = 0 THEN MissingContacts
  ELSE ""

InFlight(q) == q.pc \notin {"idle", "done"}

\* the request as it enters the handler (the last two fields are history:
\* the submitted emails already stored, and whether no other request is active)
Arrived(r, c, u, v, b, sid) ==
  [IdleReq EXCEPT
     !.campaign = c, !.user_id = u, !.conversation_id = v,
     !.isArray = b.isArray, !.contacts = b.contacts, !.storeId = sid,
     !.pre = {e \in EmailsIn(store[sid]) : \E i \in 1..Len(b.contacts) : b.contacts[i] = e},
     !.alone = \A o \in Reqs \ {r} : ~InFlight(req[o])]

\* another request entered: the requests in flight are no longer alone
Joined(r, q) ==
  [o \in Reqs |->
     IF o = r THEN q
     ELSE IF InFlight(req[o]) THEN [req[o] EXCEPT !.alone = FALSE]
     ELSE req[o]]

\* ------------------------------------------------------------- actions
\* requests are numbered in their order of arrival
Earlier(r) == \A o \in 1..(r - 1) : req[o].pc # "idle"

\* campaign.js: from the arrival of the request to `await Contact.find(...)`
ReceiveMulti(r) ==
  /\ variant = "multi"
  /\ req[r].pc = "idle"
  /\ Earlier(r)
  /\ \E c \in CampaignHeaders, u \in UserIds, v \in ConversationIds, b \in Bodies :
       LET sid == IF c \in RegisteredKeys THEN CAMPAIGNS[c] ELSE SingleStore
           q == Arrived(r, c, u, v, b, sid)
           bad == ValidateMulti(q)
           g == getContactModel(connections, connCreated, modelCache, modelCreated, c)
       IN  IF bad # ""
           THEN /\ req' = Joined(r, Respond(q, 400, bad, -1))
                /\ UNCHANGED <<connections, connCreated, modelCache, modelCreated>>
           ELSE /\ connections' = g.connections
                /\ connCreated' = g.connCreated
                /\ modelCache' = g.modelCache
                /\ modelCreated' = g.modelCreated
                /\ req' = Joined(r,
                     IF g.threw \/ g.model.id = ProtoMember
                     \* getContactModel threw, or Contact.find is not a function
                     THEN Catch(q, OtherError)
                     ELSE [q EXCEPT !.pc = "find", !.model = g.model])
  /\ UNCHANGED <<variant, store, mail>>

\* server2.js: from the arrival of the request to `await Contact.find(...)`
ReceiveSingle(r) ==
  /\ variant = "single"
  /\ req[r].pc = "idle"
  /\ Earlier(r)
  /\ \E u \in UserIds, v \in ConversationIds, b \in Bodies :
       LET q == Arrived(r, "", u, v, b, SingleStore)
           bad == ValidateSingle(q)
       IN  req' = Joined(r, IF bad # "" THEN Respond(q, 400, bad, -1)
                            ELSE [q EXCEPT !.pc = "find"])
  /\ UNCHANGED <<variant, store, connections, connCreated, modelCache, modelCreated, mail>>

\* variation: no early return when nothing is new
AfterFind_NoEarlyReturn(v, q, docs) ==
  [q EXCEPT !.pc = "insert",
            !.newContacts = NewContacts(q.contacts, ExistingEmails(docs, q.contacts))]

\* the handler after `await Contact.find(...)` resolved
AfterFind(v, q, docs) ==
  LET new == NewContacts(q.contacts, ExistingEmails(docs, q.contacts))
  IN  IF Len(new) = 0
      THEN Respond(q, 200, AlreadyExist(v), -1)
      ELSE [q EXCEPT !.pc = "insert", !.newContacts = new]

\* the existence query resolves
FindResolves(r) ==
  /\ req[r].pc = "find"
  /\ req' = [req EXCEPT ![r] = AfterFind(variant, @, store[@.storeId])]
  /\ UNCHANGED <<variant, store, connections, connCreated, modelCache, modelCreated, mail>>

\* the existence query rejects
FindRejects(r) ==
  /\ req[r].pc = "find"
  /\ req' = [req EXCEPT ![r] = Catch(@, OtherError)]
  /\ UNCHANGED <<variant, store, connections, connCreated, modelCache, modelCreated, mail>>

\* the handler after `await Contact.insertMany(...)` resolved: the sends of
\* Promise.all(responseData.map(...)) are all started before the next await
AfterInsert(q) ==
  [q EXCEPT !.pc = "send", !.inserted = q.newContacts,
            !.pending = 1..Len(q.newContacts)]

\* insertMany(newContacts, { ordered: false }) answers: every document that
\* does not collide is written; it rejects with code 11000 if one collided
InsertAnswers(r) ==
  /\ req[r].pc = "insert"
  /\ LET q == req[r]
         ok == Insertable(EmailsIn(store[q.storeId]), q.newContacts)
     IN  /\ store' = [store EXCEPT ![q.storeId] = @ \cup Docs(q, r, ok)]
         /\ IF ok = 1..Len(q.newContacts)
            THEN /\ req' = [req EXCEPT ![r] = AfterInsert(q)]
                 /\ mail' = mail \cup Sends(q, r, q.newContacts)
            ELSE /\ req' = [req EXCEPT ![r] = Catch(q, DuplicateKey)]
                 /\ mail' = mail
  /\ UNCHANGED <<variant, connections, connCreated, modelCache, modelCreated>>

\* insertMany rejects with another error (connection lost, timeout, ...):
\* any of the documents that do not collide may have been written
InsertFails(r) ==
  /\ req[r].pc = "insert"
  /\ LET q == req[r]
         ok == Insertable(EmailsIn(store[q.storeId]), q.newContacts)
     IN  \E S \in SUBSET ok :
           /\ store' = [store EXCEPT ![q.storeId] = @ \cup Docs(q, r, S)]
           /\ req' = [req EXCEPT ![r] = Catch(q, OtherError)]
  /\ UNCHANGED <<variant, connections, connCreated, modelCache, modelCreated, mail>>

\* sgMail.send resolved for recipient i
OnSendSuccess(q, i) == [q EXCEPT !.pending = @ \ {i}]

\* variation: the rejection of a send is not caught around the send
OnSendFailure_Rethrow(q, i) ==
  Catch([q EXCEPT !.pending = @ \ {i}, !.failed = @ \cup {i}], OtherError)

\* sgMail.send rejected for recipient i: the inner catch only logs
OnSendFailure(q, i) == [q EXCEPT !.pending = @ \ {i}, !.failed = @ \cup {i}]

SendSucceeds(r) ==
  /\ req[r].pc = "send"
  /\ \E i \in req[r].pending : req' = [req EXCEPT ![r] = OnSendSuccess(@, i)]
  /\ UNCHANGED <<variant, store, connections, connCreated, modelCache, modelCreated, mail>>

SendFails(r) ==
  /\ req[r].pc = "send"
  /\ \E i \in req[r].pending : req' = [req EXCEPT ![r] = OnSendFailure(@, i)]
  /\ UNCHANGED <<variant, store, connections, connCreated, modelCache, modelCreated, mail>>

\* variation: the sends are not awaited
AllSettled_NoWait(q) == TRUE

\* Promise.all has settled
AllSettled(q) == q.pending = {}

\* the handler after `await Promise.all(...)`: campaign.js responds 200 with
\* the count, server2.js falls off the end of the try block
AfterSends(v, q) ==
  IF v = "multi"
  THEN Respond(q, 200, Processed, Len(q.inserted))
  ELSE [q EXCEPT !.pc = "done"]

Finish(r) ==
  /\ req[r].pc = "send"
  /\ AllSettled(req[r])
  /\ req' = [req EXCEPT ![r] = AfterSends(variant, @)]
  /\ UNCHANGED <<variant, store, connections, connCreated, modelCache, modelCreated, mail>>

Next ==
  \E r \in Reqs :
    \/ ReceiveMulti(r)
    \/ ReceiveSingle(r)
    \/ FindResolves(r)
    \/ FindRejects(r)
    \/ InsertAnswers(r)
    \/ InsertFails(r)
    \/ SendSucceeds(r)
    \/ SendFails(r)
    \/ Finish(r)

Spec == Init /\ [][Next]_vars

\* =================================================================== claims
Received(r) == req[r].pc # "idle"
Done(r) == req[r].pc = "done"

\* the documents request r wrote, in whatever store
OwnedDocs(r) == {d \in UNION {store[s] : s \in StoreIds} : d.req = r}

\* the sgMail.send calls request r made
Attempts(r) == {m \in mail : m.req = r}

SeqSet(s) == {s[i] : i \in 1..Len(s)}
PairwiseDistinct(s) == \A i, j \in 1..Len(s) : s[i] = s[j] => i = j

\* a request that satisfies every rule of the endpoint's contract
Valid(r) ==
  /\ Received(r)
  /\ variant = "multi" => req[r].campaign \in RegisteredKeys
  /\ req[r].user_id # "" /\ req[r].conversation_id # ""
  /\ req[r].isArray /\ Len(req[r].contacts) > 0

\* ---------------------------------------------------------------------- C1
\* C1 (as claimed): in the multi-campaign variant every request whose
\* campaign header is a non-empty string other than campaign1..campaign5 is
\* answered 400, creates no connection and no accessor for that value, and
\* reads, writes and mails nothing.
C1_UnregisteredRejected ==
  \A r \in Reqs :
    (/\ variant = "multi"
     /\ Received(r)
     /\ req[r].campaign # ""
     /\ req[r].campaign \notin RegisteredKeys)
    => /\ Done(r)
       /\ req[r].status = 400
       /\ connCreated[req[r].campaign] = 0
       /\ modelCreated[req[r].campaign] = 0
       /\ OwnedDocs(r) = {}
       /\ Attempts(r) = {}

\* ---------------------------------------------------------------------- C2
\* the first rule of the contract a multi-campaign request violates
FirstViolatedMulti(q) ==
  IF q.campaign = "" THEN MissingCampaign
  ELSE IF q.user_id = "" \/ q.conversation_id = "" THEN MissingIdentity
  ELSE IF q.campaign \notin RegisteredKeys THEN InvalidCampaign
  ELSE IF ~q.isArray \/ Len(q.contacts) = 0 THEN MissingContacts
  ELSE ""

\* C2 (as claimed): a multi-campaign request that violates a rule is answered
\* with the 400 error of the first rule it violates in the order campaign
\* present, identity present, campaign registered, contacts non-empty array;
\* and it wrote no document and sent no email.
C2_FirstViolatedRule ==
  \A r \in Reqs :
    (variant = "multi" /\ Received(r) /\ FirstViolatedMulti(req[r]) # "")
    => /\ Done(r)
       /\ req[r].status = 400
       /\ req[r].message = FirstViolatedMulti(req[r])
       /\ OwnedDocs(r) = {}
       /\ Attempts(r) = {}

\* ---------------------------------------------------------------------- C3
\* no store holds two documents with the same email
UniqueEmails ==
  \A s \in StoreIds : \A d1, d2 \in store[s] : d1.email = d2.email => d1 = d2

\* the response of request r is a 200 reporting a positive inserted count
ReportsInserted(r) == req[r].status = 200 /\ req[r].insertedField > 0

\* the emails a 200 response of request r counts as inserted
Counted(r) == IF ReportsInserted(r) THEN SeqSet(req[r].inserted) ELSE {}

\* C3 (as claimed): emails are unique per store, and when the same contact is
\* submitted twice to the same campaign (the first submission not ending in a
\* 400 or 500), the second submission is never answered with a 200 that
\* reports a positive inserted count.
C3_SecondNeverInserts ==
  /\ UniqueEmails
  /\ \A r1, r2 \in Reqs :
       (/\ r1 < r2
        /\ Valid(r1) /\ Valid(r2)
        /\ req[r1].storeId = req[r2].storeId
        /\ Len(req[r1].contacts) = 1
        /\ req[r1].contacts = req[r2].contacts
        /\ Done(r1) /\ Done(r2)
        /\ req[r1].status \notin {400, 500})
       => ~ReportsInserted(r2)

\* C3 (amended): emails are unique per store; when the same contact is
\* submitted by two requests to the same campaign, at most one of the two
\* responses counts it as inserted (in a race it can be the one of the later
\* arrival), and a request that arrives when the email is already stored
\* never counts it as inserted.
C3_AtMostOneInserts ==
  /\ UniqueEmails
  /\ \A r1, r2 \in Reqs :
       (r1 # r2 /\ Received(r1) /\ Received(r2) /\ req[r1].storeId = req[r2].storeId)
       => Counted(r1) \cap Counted(r2) = {}
  /\ \A r \in Reqs : Counted(r) \cap req[r].pre = {}

\* the later of two overlapping submissions of one contact won the race
C3_Witness ==
  \E r1, r2 \in Reqs :
    /\ r1 < r2
    /\ Valid(r1) /\ Valid(r2)
    /\ req[r1].storeId = req[r2].storeId
    /\ Len(req[r1].contacts) = 1
    /\ req[r1].contacts = req[r2].contacts
    /\ Done(r1) /\ Done(r2)
    /\ req[r1].status = 201
    /\ ReportsInserted(r2)

\* ---------------------------------------------------------------------- C4
\* C4 (as claimed): once the handler of a request has ended (and the store
\* did not fail with an error of its own), every document the request wrote
\* was handed to a send attempt by that request.
C4_InsertedAreNotified ==
  \A r \in Reqs :
    (Done(r) /\ req[r].errCode # OtherError)
    => \A d \in OwnedDocs(r) : \E m \in Attempts(r) : m.idx = d.idx

\* ---------------------------------------------------------------------- C5
\* C5 (as claimed): a valid multi-campaign request handled alone, none of
\* whose emails is stored when it arrives, is answered 200 with `inserted`
\* equal to the number of distinct emails submitted (the same email may
\* appear more than once); that many documents are written and one email is
\* sent per document.
C5_AllNewCounted ==
  \A r \in Reqs :
    (/\ variant = "multi"
     /\ Valid(r) /\ Done(r) /\ req[r].alone
     /\ req[r].pre = {}
     /\ req[r].errCode # OtherError)
    => /\ req[r].status = 200
       /\ req[r].insertedField = Cardinality(SeqSet(req[r].contacts))
       /\ Cardinality(OwnedDocs(r)) = Cardinality(SeqSet(req[r].contacts))
       /\ Cardinality(Attempts(r)) = Cardinality(OwnedDocs(r))

\* ---------------------------------------------------------------------- C6
\* C6: a valid request with pairwise distinct emails, handled alone and
\* without a failure of the store itself, meets no error, writes exactly one
\* document per submitted email that was not stored when it arrived, and
\* makes exactly one send attempt per written document (addressed to its
\* lowercased email) and none besides.
C6_ExactlyNewInserted ==
  \A r \in Reqs :
    (/\ Valid(r) /\ Done(r) /\ req[r].alone
     /\ PairwiseDistinct(req[r].contacts)
     /\ req[r].errCode # OtherError)
    => /\ req[r].errCode = 0
       /\ {d.email : d \in OwnedDocs(r)} = SeqSet(req[r].contacts) \ req[r].pre
       /\ Cardinality(OwnedDocs(r)) = Cardinality(SeqSet(req[r].contacts) \ req[r].pre)
       /\ \A d \in OwnedDocs(r) :
            \E m \in Attempts(r) : m.idx = d.idx /\ m.to = toLowerCase(d.email)
       /\ \A m \in Attempts(r) : \E d \in OwnedDocs(r) : d.idx = m.idx
       /\ Cardinality(Attempts(r)) = Cardinality(OwnedDocs(r))

\* {a, b} submitted with a stored and b not: only b written, only b mailed
C6_Witness ==
  \E r \in Reqs :
    /\ Valid(r) /\ Done(r) /\ req[r].alone
    /\ Len(req[r].contacts) = 2 /\ PairwiseDistinct(req[r].contacts)
    /\ req[r].errCode = 0
    /\ Cardinality(req[r].pre) = 1
    /\ Cardinality(OwnedDocs(r)) = 1
    /\ Cardinality(Attempts(r)) = 1

\* ---------------------------------------------------------------------- C7
\* C7 (as claimed): in both variants, once the handler of a request has
\* ended it has sent a response; if the request passed validation and its
\* batch insert succeeded, the response is the 200 carrying the inserted
\* count.
C7_SuccessResponds ==
  \A r \in Reqs :
    Done(r)
    => /\ req[r].status # 0
       /\ Len(req[r].inserted) > 0
            => req[r].status = 200 /\ req[r].insertedField = Len(req[r].inserted)

\* ---------------------------------------------------------------------- C8
\* C8: for a request whose insert succeeded, whichever sends fail, a send was
\* attempted for every inserted record, no error reached the handler's catch
\* block, and the multi-campaign response is 200 with `inserted` equal to the
\* number of inserted records.
C8_SendFailuresContained ==
  \A r \in Reqs :
    Len(req[r].inserted) > 0
    => /\ \A i \in 1..Len(req[r].inserted) :
            \E m \in Attempts(r) : m.idx = i /\ m.to = toLowerCase(req[r].inserted[i])
       /\ req[r].errCode = 0
       /\ req[r].status \notin {201, 500}
       /\ (variant = "multi" /\ Done(r))
            => /\ req[r].status = 200
               /\ req[r].insertedField = Len(req[r].inserted)
               /\ req[r].insertedField = Cardinality(OwnedDocs(r))

\* one of two sends failed, the other succeeded, and the response is 200 / 2
C8_Witness ==
  \E r \in Reqs :
    /\ variant = "multi" /\ Done(r)
    /\ Len(req[r].inserted) = 2
    /\ Cardinality(req[r].failed) = 1
    /\ req[r].status = 200 /\ req[r].insertedField = 2

\* ---------------------------------------------------------------------- C9
\* C9: a request that passed the validation checks and whose handler caught
\* an error is answered 201 with an empty array if the error's code is 11000
\* and 500 with the generic body otherwise; it is never answered 200 and has
\* sent no email.
C9_CatchResponses ==
  \A r \in Reqs :
    req[r].errCode # 0
    => /\ Done(r)
       /\ req[r].errCode = DuplicateKey
            => req[r].status = 201 /\ req[r].message = "[]"
       /\ req[r].errCode # DuplicateKey
            => req[r].status = 500 /\ req[r].message = "Internal server error"
       /\ req[r].insertedField = -1
       /\ Attempts(r) = {}

\* one request ended in the 201 path and another in the 500 path
C9_Witness ==
  \E r1, r2 \in Reqs :
    /\ req[r1].errCode = DuplicateKey /\ req[r1].status = 201
    /\ req[r2].errCode = OtherError /\ req[r2].status = 500
    /\ req[r2].pc = "done" /\ req[r2].newContacts # <<>>

\* --------------------------------------------------------------------- C10
\* C10: at most one connection and at most one accessor is ever created per
\* campaign key, and all requests of a campaign got the same accessor, the
\* cached one, bound to the cached connection.
C10_OneHandlePerCampaign ==
  /\ \A k \in Keys : connCreated[k] <= 1 /\ modelCreated[k] <= 1
  /\ \A r \in Reqs :
       req[r].model # NoModel
       => /\ req[r].model = modelCache[req[r].campaign]
          /\ req[r].model.conn = connections[req[r].campaign]
  /\ \A r1, r2 \in Reqs :
       (/\ req[r1].model # NoModel /\ req[r2].model # NoModel
        /\ req[r1].campaign = req[r2].campaign)
       => req[r1].model = req[r2].model

\* two requests that are both in flight use the accessor of the same campaign
C10_Witness ==
  \E r1, r2 \in Reqs :
    /\ r1 # r2
    /\ InFlight(req[r1]) /\ InFlight(req[r2])
    /\ req[r1].campaign = req[r2].campaign
    /\ req[r1].model # NoModel /\ req[r1].model = req[r2].model

\* --------------------------------------------------------------------- C11
\* C11: when the existence query of a request resolves while every submitted
\* email is in the campaign's store, the request is answered 200 with the
\* "already exist" message and no `inserted` field, the handler ends, the
\* store and the sent mail are unchanged, and the request has written no
\* document and sent no email.
C11_AllExistingNoInsert ==
  [][\A r \in Reqs :
       (/\ req[r].pc = "find"
        /\ req'[r].pc # "find"
        /\ req'[r].errCode = 0
        /\ SeqSet(req[r].contacts) \subseteq EmailsIn(store[req[r].storeId]))
       => /\ req'[r].pc = "done"
          /\ req'[r].status = 200
          /\ req'[r].message = AlreadyExist(variant)
          /\ req'[r].insertedField = -1
          /\ store' = store
          /\ mail' = mail
          /\ {d \in UNION {store'[s] : s \in StoreIds} : d.req = r} = {}
          /\ {m \in mail' : m.req = r} = {}]_vars

\* a batch of two, both stored by another request, answered "already exist"
C11_Witness ==
  \E r \in Reqs :
    /\ Done(r)
    /\ Len(req[r].contacts) = 2 /\ PairwiseDistinct(req[r].contacts)
    /\ req[r].message = AlreadyExist(variant)
    /\ req[r].status = 200 /\ req[r].insertedField = -1
    /\ SeqSet(req[r].contacts) \subseteq EmailsIn(store[req[r].storeId])
    /\ OwnedDocs(r) = {} /\ Attempts(r) = {}

\* --------------------------------------------------------------------- C12
\* request r has written a document with email e
Stores(r, e) == \E d \in OwnedDocs(r) : d.email = e

\* C12: when two requests of the same campaign both finished their existence
\* query for an email e before either of them inserted (so both kept e in
\* their batch), and both inserts have been answered by the store (no store
\* outage, no third request storing e), exactly one of the two has written e
\* and the other was answered 201 with an empty array after a duplicate-key
\* error.
C12_RaceOneWinner ==
  \A r1, r2 \in Reqs : \A e \in Emails :
    (/\ r1 # r2
     /\ req[r1].storeId = req[r2].storeId
     /\ req[r1].pc \in {"send", "done"} /\ req[r2].pc \in {"send", "done"}
     /\ e \in SeqSet(req[r1].newContacts) /\ e \in SeqSet(req[r2].newContacts)
     /\ req[r1].errCode # OtherError /\ req[r2].errCode # OtherError
     /\ \A o \in Reqs \ {r1, r2} : ~Stores(o, e) \/ req[o].storeId # req[r1].storeId)
    => \E w \in {r1, r2} :
         LET l == IF w = r1 THEN r2 ELSE r1
         IN  /\ Stores(w, e)
             /\ ~Stores(l, e)
             /\ req[l].pc = "done"
             /\ req[l].errCode = DuplicateKey
             /\ req[l].status = 201
             /\ req[l].message = "[]"

\* both requests kept e after their query; one stored it, the other got 201
C12_Witness ==
  \E r1, r2 \in Reqs : \E e \in Emails :
    /\ r1 # r2
    /\ req[r1].storeId = req[r2].storeId
    /\ e \in SeqSet(req[r1].newContacts) /\ e \in SeqSet(req[r2].newContacts)
    /\ Stores(r1, e) /\ req[r1].pc = "done" /\ ReportsInserted(r1)
    /\ ~Stores(r2, e) /\ req[r2].pc = "done" /\ req[r2].status = 201

\* --------------------------------------------------------------------- C13
\* C13: when the unordered batch insert of a request is rejected with a
\* duplicate-key error, every record of the batch whose email was not in the
\* store before the insert has nevertheless been written by this request.
C13_OthersStillInserted ==
  [][\A r \in Reqs :
       (req[r].pc = "insert" /\ req'[r].errCode = DuplicateKey)
       => \A i \in 1..Len(req[r].newContacts) :
            req[r].newContacts[i] \notin EmailsIn(store[req[r].storeId])
            => \E d \in store'[req[r].storeId] :
                 d.req = r /\ d.email = req[r].newContacts[i]]_vars

\* a batch of two distinct emails: the first collided with a record another
\* request stored after this request's query, the second was written
C13_Witness ==
  \E r, o \in Reqs :
    /\ r # o
    /\ req[r].errCode = DuplicateKey
    /\ Len(req[r].newContacts) = 2
    /\ req[r].newContacts[1] # req[r].newContacts[2]
    /\ Stores(o, req[r].newContacts[1])
    /\ req[o].storeId = req[r].storeId
    /\ Stores(r, req[r].newContacts[2])

\* --------------------------------------------------------------------- C14
\* C14: whenever the 200 response carrying an inserted count has been sent,
\* a send was started for every inserted record of the request and none of
\* its sends is still pending.
C14_ResponseAfterSettle ==
  \A r \in Reqs :
    ReportsInserted(r)
    => /\ req[r].pending = {}
       /\ \A i \in 1..Len(req[r].inserted) : \E m \in Attempts(r) : m.idx = i
       /\ Cardinality(Attempts(r)) = req[r].insertedField

\* the success response of a batch of two, sent after both sends succeeded
C14_Witness ==
  \E r \in Reqs :
    /\ ReportsInserted(r)
    /\ Len(req[r].inserted) = 2
    /\ req[r].pending = {} /\ req[r].failed = {}
    /\ Cardinality(Attempts(r)) = 2

\* --------------------------------------------------------------------- C15
\* C15: in the multi-campaign variant requests of different campaigns use
\* different stores and every document lies in the store of the campaign of
\* the request that wrote it; a step changes at most one store, that of the
\* campaign of the request whose insert it answers, and only by documents of
\* that request; and a request handled alone (store not failing, emails
\* pairwise distinct) none of whose emails is in its own campaign's store
\* writes and mails all of them, whatever the other stores hold.
C15_CampaignIsolation ==
  /\ [](variant = "multi" =>
         /\ \A r1, r2 \in Reqs :
              (Valid(r1) /\ Valid(r2) /\ req[r1].campaign # req[r2].campaign)
              => req[r1].storeId # req[r2].storeId
         /\ \A s \in StoreIds : \A d \in store[s] :
              Valid(d.req) /\ req[d.req].storeId = s
         /\ \A r \in Reqs :
              (/\ Valid(r) /\ Done(r) /\ req[r].alone
               /\ PairwiseDistinct(req[r].contacts)
               /\ req[r].pre = {}
               /\ req[r].errCode # OtherError)
              => \A i \in 1..Len(req[r].contacts) :
                   /\ Stores(r, req[r].contacts[i])
                   /\ \E m \in Attempts(r) : m.to = toLowerCase(req[r].contacts[i]))
  /\ [][variant = "multi" =>
          \A s \in StoreIds :
            store'[s] # store[s]
            => \E r \in Reqs :
                 /\ req[r].pc = "insert" /\ req'[r].pc # "insert"
                 /\ req[r].storeId = s
                 /\ \A d \in store'[s] \ store[s] : d.req = r
                 /\ \A t \in StoreIds \ {s} : store'[t] = store[t]]_vars

\* the same email is stored in two campaigns, written and mailed by two
\* requests, the second of which found it in the other campaign's store only
C15_Witness ==
  \E r1, r2 \in Reqs : \E e \in Emails :
    /\ variant = "multi"
    /\ r1 < r2
    /\ req[r1].campaign # req[r2].campaign
    /\ Done(r1) /\ Done(r2) /\ req[r2].alone
    /\ Stores(r1, e) /\ Stores(r2, e)
    /\ ReportsInserted(r1) /\ ReportsInserted(r2)
    /\ \E m \in Attempts(r2) : m.to = toLowerCase(e)

\* --------------------------------------------------------------------- C16
\* C16: no step removes or changes a stored document, and every stored
\* document carries the user_id and conversation_id of the request that
\* wrote it, whatever later requests submit for the same email.
C16_StoreOnlyGrows ==
  /\ [][\A s \in StoreIds : store[s] \subseteq store'[s]]_vars
  /\ [](\A s \in StoreIds : \A d \in store[s] :
          /\ d.user_id = req[d.req].user_id /\ d.user_id # ""
          /\ d.conversation_id = req[d.req].conversation_id /\ d.conversation_id # ""
          /\ d.email \in SeqSet(req[d.req].contacts))

\* an email stored by one request was submitted again under another user_id
\* and the stored document still carries the first request's user_id
C16_Witness ==
  \E r1, r2 \in Reqs : \E d \in OwnedDocs(r1) :
    /\ r1 # r2
    /\ Done(r1) /\ Done(r2)
    /\ req[r2].storeId = req[r1].storeId
    /\ d.email \in SeqSet(req[r2].contacts)
    /\ Valid(r2)
    /\ req[r2].user_id # req[r1].user_id
    /\ d.user_id = req[r1].user_id
    /\ OwnedDocs(r2) = {}

\* --------------------------------------------------------------------- C17
\* C17: at most one response is ever sent for a request; once it is sent the
\* handler has ended, and the response is never replaced.
C17_AtMostOneResponse ==
  /\ [](\A r \in Reqs :
          /\ req[r].responses <= 1
          /\ req[r].responses = 1 <=> req[r].status # 0
          /\ req[r].responses = 1 => Done(r))
  /\ [][\A r \in Reqs :
          req[r].responses = 1
          => /\ req'[r].responses = 1
             /\ req'[r].status = req[r].status
             /\ req'[r].message = req[r].message]_vars

\* two requests answered on different paths (201 and 200), once each
C17_Witness ==
  \E r1, r2 \in Reqs :
    /\ req[r1].responses = 1 /\ req[r1].status = 201
    /\ req[r2].responses = 1 /\ req[r2].status = 200
    /\ Done(r1) /\ Done(r2)

\* --------------------------------------------------------------------- C18
\* C18 (as claimed): within one campaign no recipient address is the target
\* of more than one send attempt.
C18_NoRecipientTwice ==
  \A m1, m2 \in mail :
    (m1.storeId = m2.storeId /\ m1.to = m2.to) => m1 = m2

\* --------------------------------------------------------------------- C19
\* C19: whenever an accessor is cached for a key, a connection is cached for
\* that key and the accessor is bound to it; and neither cache ever has an
\* entry for a key that is not a registered campaign, nor was a connection
\* or accessor ever created for such a key.
C19_CachesConsistent ==
  /\ \A k \in Keys :
       modelCache[k] # NoModel
       => /\ connections[k] # 0
          /\ modelCache[k].conn = connections[k]
          /\ modelCache[k].id = modelCreated[k]
          /\ connections[k] = connCreated[k]
  /\ \A k \in Keys \ RegisteredKeys :
       /\ connections[k] = 0 /\ modelCache[k] = NoModel
       /\ connCreated[k] = 0 /\ modelCreated[k] = 0

\* one campaign has a cached accessor bound to its cached connection, and a
\* request naming an Object.prototype member went through the cache lookups
\* without adding an entry
C19_Witness ==
  \E r1, r2 \in Reqs :
    /\ req[r1].campaign \in RegisteredKeys
    /\ modelCache[req[r1].campaign] # NoModel
    /\ modelCache[req[r1].campaign].conn = connections[req[r1].campaign]
    /\ req[r1].model = modelCache[req[r1].campaign]
    /\ req[r2].campaign \in ProtoKeys
    /\ Done(r2) /\ req[r2].status = 500
    /\ modelCache[req[r2].campaign] = NoModel

====
